---- MODULE Spec2Model ----
(***************************************************************************)
(* Model of the tbtools post-processing scripts:                           *)
(*   scripts/merge-logs.py       merge_logs      (specification Spec)      *)
(*   scripts/process-trace.py    process_trace   (specification SpecTrace) *)
(*   scripts/process-devices.py  process_devices (specification SpecDev)   *)
(*   scripts/util.py             convert_int, convert_timestamp            *)
(*                                                                         *)
(* Text is a sequence of one-character strings, so that the regular        *)
(* expression, float(), int(.., 16), str() and strftime() are computed     *)
(* character by character as the Python code computes them.                *)
(***************************************************************************)
EXTENDS Integers, Sequences, FiniteSets, TLC

VARIABLES
    \* ---- merge_logs ----
    nlogs,      \* len(logs): number of path arguments
    read,       \* read[f]: the lines readline() has returned from files[f]
    fi,         \* index of the file the outer for loop is at
    entry,      \* the local `entry`: <<>> or <<timestamp, count, text>>
    count,      \* the local `count`
    heap,       \* the local `heap` (a heapq list)
    out,        \* stdout: the arguments of the print calls, in order
    pc,         \* "read" | "print" | "done" | "IndexError"
    \* ---- process_trace ----
    theader,    \* the column names of the input csv (reader.fieldnames)
    tz,         \* the local zone's offset from UTC, in seconds
    trows,      \* the rows the reader has yielded
    tline,      \* the local `line`
    tfields,    \* the local `fields`: the path string, then the buffered rows
    entriesOut, \* the rows written to the entries file, after its header
    fieldsOut,  \* the rows written to the fields file, after its header
    tpc,        \* "loop" | "done" | "KeyError" | "ValueError"
    \* ---- process_devices ----
    dheader,    \* the column names of the input csv, in order
    drows,      \* the rows the reader has yielded
    dhdr,       \* the header row written to the output, <<>> before it is
    dout,       \* the rows written to the output after the header
    dpc         \* "start" | "loop" | "done" | "KeyError" | "ValueError"

mvars == <<nlogs, read, fi, entry, count, heap, out, pc>>

tvars == <<theader, tz, trows, tline, tfields, entriesOut, fieldsOut, tpc>>

dvars == <<dheader, drows, dhdr, dout, dpc>>

vars == <<mvars, tvars, dvars>>

\* ---------------------------------------------------------------- bounds
MaxSources == 2
MaxTotalLines == 4
MaxTraceRows == 3
MaxDevRows == 3

\* ------------------------------------------------------------- characters
Digits == {"0", "1", "2", "3", "4", "5", "6", "7", "8", "9"}

Whitespace == {" ", "\t"}

DigitVal(c) ==
    CASE c = "0" -> 0 [] c = "1" -> 1 [] c = "2" -> 2 [] c = "3" -> 3
      [] c = "4" -> 4 [] c = "5" -> 5 [] c = "6" -> 6 [] c = "7" -> 7
      [] c = "8" -> 8 [] c = "9" -> 9

\* Code points of the characters the model's texts are made of.
Ord(c) ==
    CASE c = "\n" -> 10 [] c = "\t" -> 9 [] c = " " -> 32 [] c = "+" -> 43
      [] c = "-" -> 45 [] c = "." -> 46 [] c = ":" -> 58 [] c = "T" -> 84
      [] c = "X" -> 88 [] c = "[" -> 91 [] c = "]" -> 93
      [] c = "a" -> 97 [] c = "b" -> 98 [] c = "c" -> 99 [] c = "d" -> 100
      [] c = "e" -> 101 [] c = "f" -> 102 [] c = "x" -> 120 [] c = "y" -> 121
      [] c = "z" -> 122
      [] c \in Digits -> 48 + DigitVal(c)

RECURSIVE Pow10(_)
Pow10(k) == IF k = 0 THEN 1 ELSE 10 * Pow10(k - 1)

\* The decimal number a run of digits spells.
RECURSIVE DecValue(_)
DecValue(s) ==
    IF Len(s) = 0 THEN 0
    ELSE 10 * DecValue(SubSeq(s, 1, Len(s) - 1)) + DigitVal(s[Len(s)])

\* First position >= i of s whose character is not in set (Len(s)+1 if none).
RECURSIVE SkipWhile(_, _, _)
SkipWhile(s, i, set) ==
    IF i <= Len(s) /\ s[i] \in set THEN SkipWhile(s, i + 1, set) ELSE i

\* Python's str < str: lexicographic by code point.
RECURSIVE StrLT(_, _)
StrLT(a, b) ==
    IF Len(b) = 0 THEN FALSE
    ELSE IF Len(a) = 0 THEN TRUE
    ELSE IF a[1] # b[1] THEN Ord(a[1]) < Ord(b[1])
    ELSE StrLT(Tail(a), Tail(b))

\* ------------------------------------------------------------- merge_logs
\* pattern.match(line) for r"^\[\s*(\d+\.\d+)\]": the text of group 1, or <<>>
\* when the line does not match.
PatternMatch(line) ==
    IF Len(line) = 0 \/ line[1] # "[" THEN <<>>
    ELSE LET a == SkipWhile(line, 2, Whitespace)
             b == SkipWhile(line, a, Digits)
             c == SkipWhile(line, b + 1, Digits)
         IN  IF /\ b > a
                /\ b <= Len(line) /\ line[b] = "."
                /\ c > b + 1
                /\ c <= Len(line) /\ line[c] = "]"
             THEN SubSeq(line, a, c - 1)
             ELSE <<>>

RECURSIVE StripZeros(_)
StripZeros(s) ==
    IF Len(s) > 0 /\ s[Len(s)] = "0" THEN StripZeros(SubSeq(s, 1, Len(s) - 1))
    ELSE s

\* float(text) for a text of the form digits "." digits: the number n / 10^k,
\* with k minimal, so that equal floats are equal values.
Float(text) ==
    LET dot  == SkipWhile(text, 1, Digits)
        ip   == SubSeq(text, 1, dot - 1)
        frac == StripZeros(SubSeq(text, dot + 1, Len(text)))
    IN  [n |-> DecValue(ip) * Pow10(Len(frac)) + DecValue(frac), k |-> Len(frac)]

FloatLT(x, y) == x.n * Pow10(y.k) < y.n * Pow10(x.k)

\* Python's tuple < tuple on (float, int, str) entries.
EntryLT(x, y) ==
    \/ FloatLT(x[1], y[1])
    \/ /\ x[1] = y[1]
       /\ \/ x[2] < y[2]
          \/ x[2] = y[2] /\ StrLT(x[3], y[3])

\* heapq._siftdown(heap, startpos, pos), positions 0-based as in heapq.
RECURSIVE SiftDownFrom(_, _, _, _)
SiftDownFrom(h, startpos, pos, newitem) ==
    IF pos > startpos
    THEN LET parentpos == (pos - 1) \div 2
             parent    == h[parentpos + 1]
         IN  IF EntryLT(newitem, parent)
             THEN SiftDownFrom([h EXCEPT ![pos + 1] = parent], startpos, parentpos, newitem)
             ELSE [h EXCEPT ![pos + 1] = newitem]
    ELSE [h EXCEPT ![pos + 1] = newitem]

siftdown(h, startpos, pos) == SiftDownFrom(h, startpos, pos, h[pos + 1])

\* heapq._siftup(heap, pos): the loop that bubbles the smaller child up, then
\* the closing _siftdown.
RECURSIVE SiftUpFrom(_, _, _, _)
SiftUpFrom(h, startpos, pos, newitem) ==
    LET endpos   == Len(h)
        childpos == 2 * pos + 1
        rightpos == childpos + 1
        pick     == IF rightpos < endpos /\ ~EntryLT(h[childpos + 1], h[rightpos + 1])
                    THEN rightpos ELSE childpos
    IN  IF childpos < endpos
        THEN SiftUpFrom([h EXCEPT ![pos + 1] = h[pick + 1]], startpos, pick, newitem)
        ELSE siftdown([h EXCEPT ![pos + 1] = newitem], startpos, pos)

siftup(h, pos) == SiftUpFrom(h, pos, pos, h[pos + 1])

\* heapq.heappush(heap, item): the heap afterwards.
heappush(h, item) == siftdown(Append(h, item), 0, Len(h))

\* heapq.heappop(heap): <<returned item, the heap afterwards>>.
heappop(h) ==
    LET lastelt == h[Len(h)]
        rest    == SubSeq(h, 1, Len(h) - 1)
    IN  IF Len(rest) > 0
        THEN <<rest[1], siftup([rest EXCEPT ![1] = lastelt], 0)>>
        ELSE <<lastelt, rest>>

\* The lines the sources are made of (already without their line terminator,
\* as after rstrip('\n')).
LineA == <<"[", "1", ".", "5", "]", "b">>
LineB == <<"[", " ", "1", ".", "5", "0", "]", "a">>
LineC == <<"[", "0", ".", "7", "]", "c">>
LineX == <<"x">>
LineY == <<"[", "2", "]", "y">>

Lines == {LineA, LineB, LineC, LineX, LineY}

TotalRead == LET RECURSIVE Sum(_)
                 Sum(f) == IF f = 0 THEN 0 ELSE Len(read[f]) + Sum(f - 1)
             IN  Sum(nlogs)

MergeInit ==
    /\ nlogs \in 1..MaxSources
    /\ read = [f \in 1..nlogs |-> <<>>]
    /\ fi = 1
    /\ entry = <<>>
    /\ count = 0
    /\ heap = <<>>
    /\ out = <<>>
    /\ pc = "read"

\* NewEntry without the insertion counter as tie-break.
NewEntry_NoCount(match, line) == <<Float(match), 0, line>>

\* The entry a boundary line starts (line 33).
NewEntry(match, line) == <<Float(match), count, line>>

\* Continued with the line replacing the text instead of extending it.
Continued_Overwrite(line) == <<entry[1], entry[2], line>>

\* The entry after a continuation line is appended (line 36).
Continued(line) == <<entry[1], entry[2], entry[3] \o <<"\n">> \o line>>

\* The heap after `if entry: heapq.heappush(heap, entry)` (lines 21-22, 28-29).
PushPending == IF entry # <<>> THEN heappush(heap, entry) ELSE heap

\* readline() returns a line that matches the pattern (lines 25-34).
ReadBoundary ==
    /\ pc = "read"
    /\ TotalRead < MaxTotalLines
    /\ \E line \in Lines :
         /\ PatternMatch(line) # <<>>
         /\ read' = [read EXCEPT ![fi] = Append(@, line)]
         /\ heap' = PushPending
         /\ entry' = NewEntry(PatternMatch(line), line)
         /\ count' = count + 1
    /\ UNCHANGED <<nlogs, fi, out, pc, tvars, dvars>>

\* readline() returns a line that does not match, with a record pending
\* (lines 25-26, 35-36).
ReadContinuation ==
    /\ pc = "read"
    /\ TotalRead < MaxTotalLines
    /\ entry # <<>>
    /\ \E line \in Lines :
         /\ PatternMatch(line) = <<>>
         /\ read' = [read EXCEPT ![fi] = Append(@, line)]
         /\ entry' = Continued(line)
    /\ UNCHANGED <<nlogs, fi, count, heap, out, pc, tvars, dvars>>

\* readline() returns a line that does not match while entry is the empty
\* tuple: entry[0] raises IndexError (line 36) and merge_logs is left.
ReadOrphan ==
    /\ pc = "read"
    /\ TotalRead < MaxTotalLines
    /\ entry = <<>>
    /\ \E line \in Lines :
         /\ PatternMatch(line) = <<>>
         /\ read' = [read EXCEPT ![fi] = Append(@, line)]
    /\ pc' = "IndexError"
    /\ UNCHANGED <<nlogs, fi, entry, count, heap, out, tvars, dvars>>

\* readline() returns '' (lines 19-24, then line 16 for the next file).
ReadEOF ==
    /\ pc = "read"
    /\ heap' = PushPending
    /\ entry' = <<>>
    /\ IF fi < nlogs
       THEN fi' = fi + 1 /\ pc' = "read"
       ELSE fi' = fi /\ pc' = "print"
    /\ UNCHANGED <<nlogs, read, count, out, tvars, dvars>>

\* One iteration of `while heap: print(heapq.heappop(heap)[2])` (lines 38-39).
PrintNext ==
    /\ pc = "print"
    /\ Len(heap) > 0
    /\ out' = Append(out, heappop(heap)[1][3])
    /\ heap' = heappop(heap)[2]
    /\ UNCHANGED <<nlogs, read, fi, entry, count, pc, tvars, dvars>>

\* The while loop ends on the empty heap and merge_logs returns.
Return ==
    /\ pc = "print"
    /\ Len(heap) = 0
    /\ pc' = "done"
    /\ UNCHANGED <<nlogs, read, fi, entry, count, heap, out, tvars, dvars>>

MergeNext ==
    \/ ReadBoundary
    \/ ReadContinuation
    \/ ReadOrphan
    \/ ReadEOF
    \/ PrintNext
    \/ Return

\* ------------------------------------------------- merge_logs: properties
\* What the input is, told without the code's operators: which of the sample
\* lines are boundary lines and the timestamp (in hundredths) each one opens with.
IsBoundaryLine(line) == line \in {LineA, LineB, LineC}

Stamp(line) ==
    CASE line = LineA -> 150 [] line = LineB -> 150 [] line = LineC -> 70

RECURSIVE JoinLines(_)
JoinLines(ls) ==
    IF Len(ls) = 1 THEN ls[1]
    ELSE JoinLines(SubSeq(ls, 1, Len(ls) - 1)) \o <<"\n">> \o ls[Len(ls)]

\* Last position of the record that starts at boundary line i of a source.
RECURSIVE RecordEnd(_, _)
RecordEnd(ls, i) ==
    IF i < Len(ls) /\ ~IsBoundaryLine(ls[i + 1]) THEN RecordEnd(ls, i + 1) ELSE i

\* The records of one source, top to bottom, from position i on.
RECURSIVE RecordsFrom(_, _)
RecordsFrom(ls, i) ==
    IF i > Len(ls) THEN <<>>
    ELSE IF ~IsBoundaryLine(ls[i]) THEN RecordsFrom(ls, i + 1)
    ELSE <<[ts |-> Stamp(ls[i]), text |-> JoinLines(SubSeq(ls, i, RecordEnd(ls, i)))]>>
         \o RecordsFrom(ls, RecordEnd(ls, i) + 1)

\* All records in finalization order: sources in argument order, each top to bottom.
RECURSIVE FinalizedUpTo(_)
FinalizedUpTo(f) ==
    IF f = 0 THEN <<>> ELSE FinalizedUpTo(f - 1) \o RecordsFrom(read[f], 1)

Finalized == FinalizedUpTo(nlogs)

\* Insert r after every record whose timestamp is <= r.ts (a stable insertion).
RECURSIVE InsertStable(_, _)
InsertStable(sorted, r) ==
    IF Len(sorted) = 0 THEN <<r>>
    ELSE IF sorted[Len(sorted)].ts <= r.ts THEN Append(sorted, r)
    ELSE Append(InsertStable(SubSeq(sorted, 1, Len(sorted) - 1), r), sorted[Len(sorted)])

RECURSIVE StableSort(_)
StableSort(rs) ==
    IF Len(rs) = 0 THEN <<>>
    ELSE InsertStable(StableSort(SubSeq(rs, 1, Len(rs) - 1)), rs[Len(rs)])

TextsOf(rs) == [i \in 1..Len(rs) |-> rs[i].text]

Occurrences(seq, x) == Cardinality({i \in 1..Len(seq) : seq[i] = x})

NumBoundaryLines == Len(Finalized)

HasLeadingContinuation ==
    \E f \in 1..nlogs : Len(read[f]) > 0 /\ ~IsBoundaryLine(read[f][1])

\* C1: when merge_logs reads all its sources to completion, the records it
\* prints are in non-decreasing timestamp order and records of equal timestamp
\* are in finalization order (sources in argument order, top to bottom in a
\* source): what is printed so far is the front of the stable sort by timestamp
\* of the finalized records, and all of it once merge_logs returns.
C1_StableTimestampOrder ==
    pc \in {"print", "done"} =>
        /\ Len(out) <= Len(Finalized)
        /\ out = SubSeq(TextsOf(StableSort(Finalized)), 1, Len(out))
        /\ pc = "done" => Len(out) = Len(Finalized)

\* A completed merge of three or more records in which an earlier source's
\* record ties with a later source's record whose text sorts before it, and the
\* output order differs from the reading order.
C1_Witness ==
    /\ pc = "done"
    /\ nlogs = 2
    /\ Len(out) >= 3
    /\ LineA \in {read[1][i] : i \in 1..Len(read[1])}
    /\ LineB \in {read[2][i] : i \in 1..Len(read[2])}
    /\ out # TextsOf(Finalized)

\* C2: for all inputs, also those with a source whose first line is a
\* continuation line, the number of records merge_logs has printed when it
\* ends equals the number of boundary lines of the sources.
C2_CountEqualsBoundaryLines ==
    pc \in {"done", "IndexError"} => Len(out) = NumBoundaryLines

\* C3: a source that starts with a continuation line (among them a source with
\* no boundary line at all) has those lines dropped without error, and every
\* record that starts at a boundary line is still printed.
C3_LeadingContinuationDropped ==
    HasLeadingContinuation =>
        /\ pc # "IndexError"
        /\ pc = "done" => Len(out) = NumBoundaryLines

\* C4: the text of every printed record is a boundary line followed by exactly
\* the continuation lines up to the next boundary line or the end of the same
\* source, joined by line breaks in order; when merge_logs returns, each such
\* record has been printed exactly as often as it occurs in the sources.
C4_RecordTextIsItsLines ==
    /\ \A i \in 1..Len(out) : Occurrences(TextsOf(Finalized), out[i]) > 0
    /\ \A i \in 1..Len(heap) : Occurrences(TextsOf(Finalized), heap[i][3]) > 0
    /\ pc = "done" =>
         \A i \in 1..Len(Finalized) :
            Occurrences(out, Finalized[i].text)
              = Occurrences(TextsOf(Finalized), Finalized[i].text)

\* A completed merge of two sources that printed a record of three lines
\* flushed by the end of the first source, and a record of the second source.
C4_Witness ==
    /\ pc = "done"
    /\ nlogs = 2
    /\ read[1] = <<LineA, LineX, LineY>>
    /\ read[2] = <<LineC>>
    /\ out = <<LineC, LineA \o <<"\n">> \o LineX \o <<"\n">> \o LineY>>


\* ---------------------------------------------------------- Python values
\* A cell of a csv row or dict: a str, an int (after convert_int) or None.
Str(s) == [t |-> "str", s |-> s, n |-> 0]

IntV(n) == [t |-> "int", s |-> <<>>, n |-> n]

None == [t |-> "none", s |-> <<>>, n |-> 0]

\* Python truth value: `if tmp:` and `not line`.
Truthy(v) ==
    CASE v.t = "none" -> FALSE
      [] v.t = "str" -> Len(v.s) > 0
      [] v.t = "int" -> v.n # 0

Range(seq) == {seq[i] : i \in 1..Len(seq)}

\* s.strip() for the whitespace of the model's texts.
RECURSIVE Strip(_)
Strip(s) ==
    IF Len(s) > 0 /\ s[1] \in Whitespace THEN Strip(Tail(s))
    ELSE IF Len(s) > 0 /\ s[Len(s)] \in Whitespace THEN Strip(SubSeq(s, 1, Len(s) - 1))
    ELSE s

HexVal(c) ==
    CASE c \in Digits -> DigitVal(c)
      [] c \in {"a", "A"} -> 10 [] c \in {"b", "B"} -> 11 [] c \in {"c", "C"} -> 12
      [] c \in {"d", "D"} -> 13 [] c \in {"e", "E"} -> 14 [] c \in {"f", "F"} -> 15
      [] OTHER -> -1

RECURSIVE HexValue(_)
HexValue(s) ==
    IF Len(s) = 0 THEN 0
    ELSE 16 * HexValue(SubSeq(s, 1, Len(s) - 1)) + HexVal(s[Len(s)])

\* int(s, 16): surrounding whitespace, a sign and a 0x/0X prefix are accepted;
\* ok is FALSE where int raises ValueError.
IntBase16(s) ==
    LET t == Strip(s)
        signed == Len(t) > 0 /\ t[1] \in {"+", "-"}
        u == IF signed THEN Tail(t) ELSE t
        v == IF Len(u) >= 2 /\ u[1] = "0" /\ u[2] \in {"x", "X"}
             THEN SubSeq(u, 3, Len(u)) ELSE u
    IN  IF Len(v) > 0 /\ \A i \in 1..Len(v) : HexVal(v[i]) >= 0
        THEN [ok |-> TRUE, n |-> IF signed /\ t[1] = "-" THEN 0 - HexValue(v) ELSE HexValue(v)]
        ELSE [ok |-> FALSE, n |-> 0]

DigitChar(d) ==
    CASE d = 0 -> "0" [] d = 1 -> "1" [] d = 2 -> "2" [] d = 3 -> "3" [] d = 4 -> "4"
      [] d = 5 -> "5" [] d = 6 -> "6" [] d = 7 -> "7" [] d = 8 -> "8" [] d = 9 -> "9"

\* str(n) for an int n.
RECURSIVE IntToDec(_)
IntToDec(n) ==
    IF n < 0 THEN <<"-">> \o IntToDec(0 - n)
    ELSE IF n < 10 THEN <<DigitChar(n)>>
    ELSE IntToDec(n \div 10) \o <<DigitChar(n % 10)>>

\* n in decimal, zero-padded to width w (strftime's %Y, %m, %d, %H, %M, %S).
RECURSIVE Pad(_, _)
Pad(n, w) == IF w <= 1 /\ n < 10 THEN <<DigitChar(n)>>
             ELSE Pad(n \div 10, w - 1) \o <<DigitChar(n % 10)>>

\* float(s) for texts of digits with an optional fraction: the whole seconds
\* ip and the fraction digits; ok is FALSE where float raises ValueError.
ParseFloat(s) ==
    LET t   == Strip(s)
        dot == SkipWhile(t, 1, Digits)
        end == IF dot <= Len(t) /\ t[dot] = "." THEN SkipWhile(t, dot + 1, Digits) ELSE dot
        nd  == (dot - 1) + (IF end > dot THEN end - dot - 1 ELSE 0)
    IN  IF end = Len(t) + 1 /\ nd > 0
        THEN [ok |-> TRUE, ip |-> DecValue(SubSeq(t, 1, dot - 1)),
              frac |-> SubSeq(t, dot + 1, Len(t))]
        ELSE [ok |-> FALSE, ip |-> 0, frac |-> <<>>]

\* The civil date of day number z (days since 1970-01-01) as <<year, month, day>>.
CivilFromDays(days) ==
    LET z   == days + 719468
        era == z \div 146097
        doe == z - era * 146097
        yoe == (doe - doe \div 1460 + doe \div 36524 - doe \div 146096) \div 365
        doy == doe - (365 * yoe + yoe \div 4 - yoe \div 100)
        mp  == (5 * doy + 2) \div 153
        d   == doy - (153 * mp + 2) \div 5 + 1
        m   == IF mp < 10 THEN mp + 3 ELSE mp - 9
        y   == yoe + era * 400 + (IF m <= 2 THEN 1 ELSE 0)
    IN  <<y, m, d>>

\* datetime.fromtimestamp(x).strftime("%Y-%m-%dT%H:%M:%S") for x of whole
\* seconds ip (its fraction ends in the microseconds, which the format drops),
\* in a local zone utcoff seconds east of UTC.
IsoLocal(ip, utcoff) ==
    LET secs == ip + utcoff
        ymd  == CivilFromDays(secs \div 86400)
        sod  == secs % 86400
    IN  Pad(ymd[1], 4) \o <<"-">> \o Pad(ymd[2], 2) \o <<"-">> \o Pad(ymd[3], 2)
        \o <<"T">> \o Pad(sod \div 3600, 2) \o <<":">> \o Pad((sod % 3600) \div 60, 2)
        \o <<":">> \o Pad(sod % 60, 2)

\* util.convert_int with int(tmp, 10) in place of int(tmp, 16).
convert_int_base10(fields, name) ==
    IF name \notin DOMAIN fields THEN [err |-> "KeyError", d |-> fields]
    ELSE IF ~Truthy(fields[name]) THEN [err |-> "", d |-> fields]
    ELSE IF \E i \in 1..Len(fields[name].s) : fields[name].s[i] \notin Digits
         THEN [err |-> "ValueError", d |-> fields]
    ELSE [err |-> "", d |-> [fields EXCEPT ![name] = IntV(DecValue(fields[name].s))]]

\* util.convert_int(fields, name): the dict afterwards, or the exception raised.
convert_int(fields, name) ==
    IF name \notin DOMAIN fields THEN [err |-> "KeyError", d |-> fields]
    ELSE IF ~Truthy(fields[name]) THEN [err |-> "", d |-> fields]
    ELSE IF ~IntBase16(fields[name].s).ok THEN [err |-> "ValueError", d |-> fields]
    ELSE [err |-> "", d |-> [fields EXCEPT ![name] = IntV(IntBase16(fields[name].s).n)]]

\* util.convert_timestamp reading the `timestamp` field instead of fields[name].
convert_timestamp_from_timestamp(fields, name) ==
    IF "timestamp" \notin DOMAIN fields \/ name \notin DOMAIN fields
    THEN [err |-> "KeyError", d |-> fields]
    ELSE IF ~Truthy(fields["timestamp"]) THEN [err |-> "", d |-> fields]
    ELSE IF ~ParseFloat(fields["timestamp"].s).ok THEN [err |-> "ValueError", d |-> fields]
    ELSE [err |-> "",
          d |-> [fields EXCEPT ![name] = Str(IsoLocal(ParseFloat(fields["timestamp"].s).ip, tz))]]

\* util.convert_timestamp(fields, name): the dict afterwards, or the exception.
convert_timestamp(fields, name) ==
    IF name \notin DOMAIN fields THEN [err |-> "KeyError", d |-> fields]
    ELSE IF ~Truthy(fields[name]) THEN [err |-> "", d |-> fields]
    ELSE IF ~ParseFloat(fields[name].s).ok THEN [err |-> "ValueError", d |-> fields]
    ELSE [err |-> "",
          d |-> [fields EXCEPT ![name] = Str(IsoLocal(ParseFloat(fields[name].s).ip, tz))]]

\* {key: row[key] for key in names if key in row}
Project(row, names) == [k \in Range(names) \cap DOMAIN row |-> row[k]]

\* What csv writes for a value: '' for None, str(value) otherwise.
CellText(v) ==
    CASE v.t = "none" -> <<>>
      [] v.t = "str" -> v.s
      [] v.t = "int" -> IntToDec(v.n)

\* csv.DictWriter(f, fieldnames).writerow(rowdict), extrasaction='raise' and
\* restval='' as by default: the cells written, in fieldnames order, or the
\* ValueError for keys that are not fieldnames.
writerow(fieldnames, rowdict) ==
    IF DOMAIN rowdict \subseteq Range(fieldnames)
    THEN [err |-> "",
          row |-> [i \in 1..Len(fieldnames) |->
                     IF fieldnames[i] \in DOMAIN rowdict
                     THEN CellText(rowdict[fieldnames[i]]) ELSE <<>>]]
    ELSE [err |-> "ValueError", row |-> <<>>]

\* The texts of the sample csv cells.
T_1700000000_25 == <<"1", "7", "0", "0", "0", "0", "0", "0", "0", "0", ".", "2", "5">>

T_86399_5 == <<"8", "6", "3", "9", "9", ".", "5">>

T_951782399 == <<"9", "5", "1", "7", "8", "2", "3", "9", "9">>

T_12_5 == <<"1", "2", ".", "5">>

T_1a == <<"1", "a">>

T_0X1b == <<"0", "X", "1", "b">>

T_8086 == <<"8", "0", "8", "6">>

T_10d3 == <<"1", "0", "d", "3">>

T_ff == <<"f", "f">>

T_10 == <<"1", "0">>

T_zz == <<"z", "z">>

T_1 == <<"1">>

T_2 == <<"2">>

T_3 == <<"3">>

T_a == <<"a">>

T_b == <<"b">>

T_0 == <<"0">>

T_x == <<"x">>

T_empty == <<>>

\* ---------------------------------------------------------- process_trace
entry_names == <<"entry", "timestamp", "datetime", "function", "dropped", "pdf",
                 "cs", "domain", "route", "adapter", "adapter_type">>

field_names == <<"entry", "offset", "data_offset", "value", "name">>

TraceColumns == Range(entry_names) \cup Range(field_names)

\* The header rows of the input csv.
TraceHeaders == {TraceColumns, TraceColumns \ {"datetime"}, TraceColumns \cup {"extra"}}

\* A row as csv.DictReader yields it for header h: one str per column.
TraceRow(h, e, dt, v, nm) ==
    [k \in h |->
       CASE k = "entry" -> Str(e)
         [] k = "timestamp" -> Str(T_12_5)
         [] k = "datetime" -> Str(dt)
         [] k = "route" -> Str(T_1a)
         [] k \in {"offset", "data_offset"} -> Str(T_10)
         [] k = "value" -> Str(v)
         [] k = "name" -> Str(nm)
         [] k = "function" -> Str(T_x)
         [] OTHER -> Str(T_0)]

TraceSamples ==
    { <<T_1, T_1700000000_25, T_ff, T_a>>,
      <<T_1, T_86399_5, T_0X1b, T_b>>,
      <<T_2, T_951782399, T_ff, T_a>>,
      <<T_2, T_empty, T_empty, T_b>>,
      <<T_empty, T_86399_5, T_ff, T_a>>,
      <<T_empty, T_empty, T_1a, T_b>>,
      <<T_3, T_86399_5, T_zz, T_a>>,
      <<T_3, T_x, T_ff, T_b>> }

TraceRows(h) == {TraceRow(h, q[1], q[2], q[3], q[4]) : q \in TraceSamples}

\* The local zones (seconds east of UTC) the script is run in.
TzOffsets == {0, 3600}

\* The state at line 53: both headers written, line = None and `fields` still
\* the path string bound at line 23.
TraceInit ==
    /\ theader \in TraceHeaders
    /\ tz \in TzOffsets
    /\ trows = <<>>
    /\ tline = None
    /\ tfields = [path |-> TRUE, rows |-> <<>>]
    /\ entriesOut = <<>>
    /\ fieldsOut = <<>>
    /\ tpc = "loop"

\* write_row(fields, writer, field_names) on a list of row dicts: the fields
\* file afterwards and the exception that ended it, if any (lines 9-17).
RECURSIVE write_row(_, _)
write_row(fields, written) ==
    IF Len(fields) = 0 THEN [err |-> "", out |-> written]
    ELSE LET f  == Project(fields[1], field_names)
             f1 == convert_int(f, "offset")
             f2 == convert_int(f1.d, "data_offset")
             f3 == convert_int(f2.d, "value")
         IN  IF f1.err # "" THEN [err |-> f1.err, out |-> written]
             ELSE IF f2.err # "" THEN [err |-> f2.err, out |-> written]
             ELSE IF f3.err # "" THEN [err |-> f3.err, out |-> written]
             ELSE write_row(Tail(fields), Append(written, writerow(field_names, f3.d).row))

\* What `for field in fields` walks over: the buffered rows, or, while `fields`
\* is still the path string, its characters; no field name is `in` a single
\* character, so each of them projects to the empty dict.
FieldItems == IF tfields.path THEN << <<>> >> ELSE tfields.rows

\* The entry dict of lines 62-64 for a row: the projection, then the two
\* conversions; err names the exception raised on the way.
EntryOf(row) ==
    LET e  == Project(row, entry_names)
        e1 == convert_timestamp(e, "datetime")
        e2 == convert_int(e1.d, "route")
    IN  IF e1.err # "" THEN e1 ELSE e2

\* `if not line` (line 55).
IsFirstLine == ~Truthy(tline)

\* A row is read and `not line` holds (lines 55-58).
TraceFirst ==
    /\ tpc = "loop"
    /\ Len(trows) < MaxTraceRows
    /\ IsFirstLine
    /\ \E row \in TraceRows(theader) :
         /\ trows' = Append(trows, row)
         /\ tline' = row["entry"]
         /\ tfields' = [path |-> FALSE, rows |-> <<row>>]
    /\ UNCHANGED <<theader, tz, entriesOut, fieldsOut, tpc, mvars, dvars>>

\* A row with another entry id is read (lines 60-69).
TraceBoundary ==
    /\ tpc = "loop"
    /\ Len(trows) < MaxTraceRows
    /\ ~IsFirstLine
    /\ \E row \in TraceRows(theader) :
         /\ tline # row["entry"]
         /\ trows' = Append(trows, row)
         /\ LET e == EntryOf(row)
                w == write_row(FieldItems, fieldsOut)
            IN  IF e.err # ""
                THEN /\ tpc' = e.err
                     /\ UNCHANGED <<tline, tfields, entriesOut, fieldsOut>>
                ELSE /\ entriesOut' = Append(entriesOut, writerow(entry_names, e.d).row)
                     /\ fieldsOut' = w.out
                     /\ IF w.err # ""
                        THEN tpc' = w.err /\ UNCHANGED <<tline, tfields>>
                        ELSE /\ tpc' = tpc
                             /\ tline' = row["entry"]
                             /\ tfields' = [path |-> FALSE, rows |-> <<row>>]
    /\ UNCHANGED <<theader, tz, mvars, dvars>>

\* A row with the current entry id is read (lines 70-71).
TraceSame ==
    /\ tpc = "loop"
    /\ Len(trows) < MaxTraceRows
    /\ ~IsFirstLine
    /\ \E row \in TraceRows(theader) :
         /\ tline = row["entry"]
         /\ trows' = Append(trows, row)
         /\ tfields' = [tfields EXCEPT !.rows = Append(@, row)]
    /\ UNCHANGED <<theader, tz, tline, entriesOut, fieldsOut, tpc, mvars, dvars>>

\* The reader is exhausted: the last write_row (lines 73-74).
TraceEnd ==
    /\ tpc = "loop"
    /\ LET w == write_row(FieldItems, fieldsOut)
       IN  /\ fieldsOut' = w.out
           /\ tpc' = IF w.err # "" THEN w.err ELSE "done"
    /\ UNCHANGED <<theader, tz, trows, tline, tfields, entriesOut, mvars, dvars>>

TraceNext ==
    \/ TraceFirst
    \/ TraceBoundary
    \/ TraceSame
    \/ TraceEnd

\* Expected outputs, as printed by Python.
ISO1 == <<"2", "0", "2", "3", "-", "1", "1", "-", "1", "4", "T", "2", "2", ":", "1", "3", ":", "2", "0">>

ISO2 == <<"2", "0", "2", "3", "-", "1", "1", "-", "1", "4", "T", "2", "3", ":", "1", "3", ":", "2", "0">>

ISO3 == <<"1", "9", "7", "0", "-", "0", "1", "-", "0", "1", "T", "2", "3", ":", "5", "9", ":", "5", "9">>

ISO4 == <<"1", "9", "7", "0", "-", "0", "1", "-", "0", "2", "T", "0", "0", ":", "5", "9", ":", "5", "9">>

ISO5 == <<"2", "0", "0", "0", "-", "0", "2", "-", "2", "8", "T", "2", "3", ":", "5", "9", ":", "5", "9">>

ISO6 == <<"2", "0", "0", "0", "-", "0", "2", "-", "2", "9", "T", "0", "0", ":", "5", "9", ":", "5", "9">>

ISO7 == <<"1", "9", "7", "0", "-", "0", "1", "-", "0", "1", "T", "0", "0", ":", "0", "0", ":", "1", "2">>

ISO8 == <<"1", "9", "7", "0", "-", "0", "1", "-", "0", "1", "T", "0", "1", ":", "0", "0", ":", "1", "2">>

DEC1 == <<"2", "6">>

DEC2 == <<"2", "7">>

DEC3 == <<"3", "2", "9", "0", "2">>

DEC4 == <<"4", "3", "0", "7">>

DEC5 == <<"2", "5", "5">>

DEC6 == <<"1", "6">>

\* ---------------------------------------------- process_trace: properties
\* What Python prints for the sample texts (run under TZ=UTC and TZ=<+01>-1).
ExpectedIso(text, utcoff) ==
    CASE text = T_1700000000_25 /\ utcoff = 0 -> ISO1
      [] text = T_1700000000_25 /\ utcoff = 3600 -> ISO2
      [] text = T_86399_5 /\ utcoff = 0 -> ISO3
      [] text = T_86399_5 /\ utcoff = 3600 -> ISO4
      [] text = T_951782399 /\ utcoff = 0 -> ISO5
      [] text = T_951782399 /\ utcoff = 3600 -> ISO6
      [] text = T_12_5 /\ utcoff = 0 -> ISO7
      [] text = T_12_5 /\ utcoff = 3600 -> ISO8

\* str(int(text, 16)) for the sample texts, as Python prints it.
ExpectedDec(text) ==
    CASE text = T_1a -> DEC1
      [] text = T_0X1b -> DEC2
      [] text = T_8086 -> DEC3
      [] text = T_10d3 -> DEC4
      [] text = T_ff -> DEC5
      [] text = T_10 -> DEC6

Idx(names, k) == CHOOSE i \in 1..Len(names) : names[i] = k

\* The cell of column k in a written row whose columns are names.
Cell(cells, names, k) == cells[Idx(names, k)]

\* The entry ids of the maximal contiguous runs of equal `entry`, in order.
RECURSIVE RunIds(_)
RunIds(rows) ==
    IF Len(rows) = 0 THEN <<>>
    ELSE LET front == SubSeq(rows, 1, Len(rows) - 1)
             id    == rows[Len(rows)]["entry"].s
         IN  IF Len(front) > 0 /\ front[Len(front)]["entry"].s = id
             THEN RunIds(front)
             ELSE Append(RunIds(front), id)

\* C5: when process_trace has ended, the number of entry-records written
\* equals the number of maximal contiguous runs of equal `entry` in the input,
\* the first run and the final run included.
C5_EntryRecordPerRun ==
    tpc = "done" => Len(entriesOut) = Len(RunIds(trows))

\* C6: the i-th entry-record emitted carries the entry id of the i-th run (the
\* run being closed when it is emitted), and every field-record written when
\* a run is closed by a row of another entry id has an entry-record with its
\* entry id.
C6_EntryRecordOfClosedRun ==
    /\ \A i \in 1..Len(entriesOut) :
          /\ i <= Len(RunIds(trows))
          /\ Cell(entriesOut[i], entry_names, "entry") = RunIds(trows)[i]
    /\ tpc = "loop" =>
       \A j \in 1..Len(fieldsOut) :
          \E i \in 1..Len(entriesOut) :
             Cell(entriesOut[i], entry_names, "entry") = Cell(fieldsOut[j], field_names, "entry")

\* C9: when process_trace has ended, the fields output holds one field-record
\* per input row, in input row order (also for rows whose `entry` is empty).
C9_FieldRecordPerRow ==
    tpc = "done" =>
        /\ Len(fieldsOut) = Len(trows)
        /\ \A i \in 1..Len(fieldsOut) :
              /\ Cell(fieldsOut[i], field_names, "entry") = trows[i]["entry"].s
              /\ Cell(fieldsOut[i], field_names, "name") = trows[i]["name"].s

\* C10 as stated: whenever an entry-record is emitted, its `datetime` is the
\* ISO-8601 local time of float(timestamp) of the row it is projected from
\* (the row just read).
C10_DatetimeFromTimestamp ==
    [][Len(entriesOut') > Len(entriesOut) =>
         Cell(entriesOut'[Len(entriesOut')], entry_names, "datetime")
           = ExpectedIso(trows'[Len(trows')]["timestamp"].s, tz)]_vars

\* C10 as amended: whenever an entry-record is emitted, the row it is projected
\* from has a `datetime` column, the record's `datetime` is the ISO-8601 local
\* time of float(datetime) of that row, or empty when that is empty, and its
\* `timestamp` is the row's `timestamp` unchanged.
C10_DatetimeFromDatetimeColumn ==
    [][Len(entriesOut') > Len(entriesOut) =>
         LET row == trows'[Len(trows')]
             rec == entriesOut'[Len(entriesOut')]
         IN  /\ "datetime" \in DOMAIN row
             /\ Cell(rec, entry_names, "datetime")
                  = IF row["datetime"].s = <<>> THEN <<>>
                    ELSE ExpectedIso(row["datetime"].s, tz)
             /\ Cell(rec, entry_names, "timestamp") = row["timestamp"].s]_vars

\* An entry-record was emitted, in the zone east of UTC, from the row whose
\* `datetime` is 951782399 and whose `timestamp` is 12.5.
C10_Witness ==
    /\ tz = 3600
    /\ tpc = "loop"
    /\ Len(entriesOut) > 0
    /\ trows[Len(trows)]["datetime"].s = T_951782399
    /\ Cell(entriesOut[Len(entriesOut)], entry_names, "datetime") = ISO6
    /\ Cell(entriesOut[Len(entriesOut)], entry_names, "timestamp") = T_12_5

\* -------------------------------------------------------- process_devices
devices_field_names == <<"domain", "route", "adapter", "index", "vendor", "device",
                         "vendor_name", "device_name", "type">>

\* The key csv.DictReader files surplus cells under (restkey=None).
RestKey == "None"

ListValue == [t |-> "list", s |-> <<>>, n |-> 0]

\* The header rows of the input csv: the schema, the schema and one more
\* column, the schema without its last column, the schema without `route`.
DevHeaders ==
    { devices_field_names,
      Append(devices_field_names, "extra"),
      SubSeq(devices_field_names, 1, 8),
      <<"domain">> \o SubSeq(devices_field_names, 3, 9) }

\* A row as csv.DictReader yields it for header h: a str per column, None
\* (restval) for the last column of a short row, the surplus cells of a long
\* row under restkey.
DevRow(h, r, v, d, shape) ==
    [k \in Range(h) \cup (IF shape = "long" THEN {RestKey} ELSE {}) |->
       CASE k = RestKey -> ListValue
         [] shape = "short" /\ k = h[Len(h)] -> None
         [] k = "route" -> Str(r)
         [] k = "vendor" -> Str(v)
         [] k = "device" -> Str(d)
         [] k \in {"vendor_name", "device_name"} -> Str(T_x)
         [] OTHER -> Str(T_0)]

DevSamples ==
    { <<T_1a, T_0X1b, T_10d3, "full">>,
      <<T_empty, T_8086, T_empty, "full">>,
      <<T_1a, T_empty, T_10d3, "short">>,
      <<T_0X1b, T_8086, T_zz, "full">>,
      <<T_1a, T_8086, T_10d3, "long">> }

DevRows(h) == {DevRow(h, q[1], q[2], q[3], q[4]) : q \in DevSamples}

\* The state at line 26: the files open, nothing written.
DevInit ==
    /\ dheader \in DevHeaders
    /\ drows = <<>>
    /\ dhdr = <<>>
    /\ dout = <<>>
    /\ dpc = "start"

\* devices_writer.writeheader() (line 27).
DevWriteHeader ==
    /\ dpc = "start"
    /\ dhdr' = devices_field_names
    /\ dpc' = "loop"
    /\ UNCHANGED <<dheader, drows, dout, mvars, tvars>>

\* One iteration of `for row in reader` (lines 28-32).
DevRead ==
    /\ dpc = "loop"
    /\ Len(drows) < MaxDevRows
    /\ \E row \in DevRows(dheader) :
         /\ drows' = Append(drows, row)
         /\ LET r1 == convert_int(row, "route")
                r2 == convert_int(r1.d, "vendor")
                r3 == convert_int(r2.d, "device")
                w  == writerow(devices_field_names, r3.d)
            IN  IF r1.err # "" THEN dpc' = r1.err /\ dout' = dout
                ELSE IF r2.err # "" THEN dpc' = r2.err /\ dout' = dout
                ELSE IF r3.err # "" THEN dpc' = r3.err /\ dout' = dout
                ELSE IF w.err # "" THEN dpc' = w.err /\ dout' = dout
                ELSE dpc' = dpc /\ dout' = Append(dout, w.row)
    /\ UNCHANGED <<dheader, dhdr, mvars, tvars>>

\* The reader is exhausted and process_devices returns.
DevEnd ==
    /\ dpc = "loop"
    /\ dpc' = "done"
    /\ UNCHANGED <<dheader, drows, dhdr, dout, mvars, tvars>>

DevNext ==
    \/ DevWriteHeader
    \/ DevRead
    \/ DevEnd

\* -------------------------------------------- process_devices: properties
\* The text of a DictReader cell (None is written as the empty text).
InputText(row, k) == IF k \in DOMAIN row /\ row[k].t = "str" THEN row[k].s ELSE <<>>

HasExtraColumns == \E i \in 1..Len(dheader) : dheader[i] \notin Range(devices_field_names)

\* Every row read so far has one cell per header column and hexadecimal or
\* empty route, vendor and device.
WellFormedRows ==
    \A i \in 1..Len(drows) :
       /\ DOMAIN drows[i] = Range(dheader)
       /\ \A k \in DOMAIN drows[i] : drows[i][k].t = "str"
       /\ \A k \in {"route", "vendor", "device"} \cap DOMAIN drows[i] :
             drows[i][k].s \in {T_empty, T_1a, T_0X1b, T_8086, T_10d3}

\* C7: an input with columns outside the 9-column schema is processed without
\* error: the header written is the 9 columns in order and every input row is
\* written as one output row of 9 cells.
C7_ExtraColumnsIgnored ==
    (HasExtraColumns /\ WellFormedRows) =>
        /\ dpc \in {"start", "loop", "done"}
        /\ dpc # "start" => dhdr = devices_field_names
        /\ Len(dout) = Len(drows)
        /\ \A i \in 1..Len(dout) : Len(dout[i]) = 9

\* C8: every output row is its input row with route, vendor and device, where
\* not empty, replaced by the integer they spell in hexadecimal, and with every
\* other cell unchanged; rows are written one per input row, in order.
C8_HexFieldsConverted ==
    /\ Len(dout) <= Len(drows)
    /\ dpc \in {"loop", "done"} => Len(dout) = Len(drows)
    /\ \A i \in 1..Len(dout) :
          \A c \in 1..Len(devices_field_names) :
             LET k  == devices_field_names[c]
                 in == InputText(drows[i], k)
             IN  dout[i][c] = IF k \in {"route", "vendor", "device"} /\ in # <<>>
                              THEN ExpectedDec(in) ELSE in

\* Two rows were written: one with route 1a, vendor 0X1b and device 10d3
\* converted, one with vendor 8086 converted and its empty route and device
\* left empty.
C8_Witness ==
    /\ dpc = "done"
    /\ Len(dout) = 2
    /\ Cell(dout[1], devices_field_names, "route") = DEC1
    /\ Cell(dout[1], devices_field_names, "vendor") = DEC2
    /\ Cell(dout[1], devices_field_names, "device") = DEC4
    /\ Cell(dout[2], devices_field_names, "route") = <<>>
    /\ Cell(dout[2], devices_field_names, "vendor") = DEC3
    /\ Cell(dout[2], devices_field_names, "device") = <<>>
    /\ drows[2]["route"] = Str(T_empty)

\* merge_logs not running.
MergeIdle ==
    /\ nlogs = 0 /\ read = <<>> /\ fi = 0 /\ entry = <<>> /\ count = 0
    /\ heap = <<>> /\ out = <<>> /\ pc = "idle"

\* process_trace not running.
TraceIdle ==
    /\ theader = {} /\ tz = 0 /\ trows = <<>> /\ tline = None
    /\ tfields = [path |-> TRUE, rows |-> <<>>]
    /\ entriesOut = <<>> /\ fieldsOut = <<>> /\ tpc = "idle"

\* process_devices not running.
DevIdle ==
    /\ dheader = <<>> /\ drows = <<>> /\ dhdr = <<>> /\ dout = <<>> /\ dpc = "idle"

\* One run of merge-logs.py.
Init == MergeInit /\ TraceIdle /\ DevIdle

Next == MergeNext

Spec == Init /\ [][Next]_vars

\* One run of process-trace.py.
InitTrace == TraceInit /\ MergeIdle /\ DevIdle

NextTrace == TraceNext

SpecTrace == InitTrace /\ [][NextTrace]_vars

\* One run of process-devices.py.
InitDev == DevInit /\ MergeIdle /\ TraceIdle

NextDev == DevNext

SpecDev == InitDev /\ [][NextDev]_vars

====
